---- MODULE Spec2Model ----
\* A model of src/code/functions.py: the identifier resolver (update_istat),
\* the name canonicalizer (normalize_name) and the fuzzy match suggester
\* (similarity_score).  Each function is run under a specification of its own
\* (SpecResolve, SpecCanon, SpecSuggest); the variables of the other two
\* functions stay at their idle values.
EXTENDS Integers, Sequences, FiniteSets, TLC

VARIABLES
    \* ---- update_istat ----
    df,            \* the istat_col column of the caller's frame, one code per row
    df_cols,       \* the column names of the caller's frame
    df_map,        \* the mapping table: rows <<old code, new code>>
    valid_codes,   \* the iterable of modern codes (as the set of its elements)
    pc,            \* position in update_istat
    mapping,       \* line 173: dict old -> new
    valid_set,     \* line 174
    unique,        \* line 177: distinct codes of df, in order of first appearance
    resolved,      \* line 180: dict code -> (final, changed, suppressed)
    i,             \* number of codes of unique already handled by the for loop
    visited,       \* resolve_code: line 184
    current,       \* resolve_code: line 185
    steps,         \* evaluations of the while condition in the present resolve_code call
    out,           \* the returned frame: one record per row
    \* ---- normalize_name ----
    name,          \* the argument: a sequence of characters, or Null
    cpc,           \* "start", "once" (normalized), "twice" (the result normalized again)
    out1,          \* normalize_name(name)
    out2,          \* normalize_name(out1)
    \* ---- similarity_score ----
    df1,           \* the col column of df1
    df2,           \* the col column of df2
    wratio,        \* the scorer fuzz.WRatio: <<query, choice>> -> score
    spc,           \* position in similarity_score
    names_df1,     \* line 135
    names_df2,     \* line 136
    unmatched,     \* line 139
    rows,          \* line 142
    nth,           \* number of names of unmatched already handled by the for loop
    err,           \* the exception similarity_score raised, "none" if none
    table          \* the returned suggestion_table

rvars == <<df, df_cols, df_map, valid_codes, pc, mapping, valid_set, unique,
           resolved, i, visited, current, steps, out>>

cvars == <<name, cpc, out1, out2>>

svars == <<df1, df2, wratio, spc, names_df1, names_df2, unmatched, rows, nth, err, table>>

vars == <<rvars, cvars, svars>>

\* ------------------------------------------------------------------ bounds

Codes == {"A", "B", "C"}

MaxRows == 2        \* rows of df
MaxMapRows == 2     \* rows of df_map

istat_col == "istat"

\* ------------------------------------------------------------------ helpers

SeqsUpTo(S, n) == UNION {[1..k -> S] : k \in 0..n}

EmptyMap == [x \in {} |-> x]

Put(f, k, v) == [x \in DOMAIN f \cup {k} |-> IF x = k THEN v ELSE f[x]]

Range(s) == {s[k] : k \in DOMAIN s}

\* df_map.set_index(istat_old)[istat_new].to_dict(): a later row with the same
\* old code overwrites an earlier one.
RECURSIVE ToDict(_)
ToDict(t) ==
    IF t = <<>> THEN EmptyMap
    ELSE Put(ToDict(SubSeq(t, 1, Len(t) - 1)), t[Len(t)][1], t[Len(t)][2])

\* df[istat_col].unique(): distinct values in order of first appearance.
RECURSIVE Unique(_)
Unique(s) ==
    IF s = <<>> THEN <<>>
    ELSE LET u == Unique(SubSeq(s, 1, Len(s) - 1))
         IN  IF s[Len(s)] \in Range(u) THEN u ELSE Append(u, s[Len(s)])

Triple(final, ch, su) == [updated |-> final, changed |-> ch, suppressed |-> su]

\* ------------------------------------------------------------------ update_istat

\* line 193
IsValid(code, vs) == code \in vs

ValidRecord_Changed(code) == Triple(code, TRUE, FALSE)

\* line 194
ValidRecord(code) == Triple(code, FALSE, FALSE)

WhileCond_NoVisited(cur, vis, m) == cur \in DOMAIN m

WhileCond_OneHop(cur, vis, m) == cur \in DOMAIN m /\ vis = {}

\* line 186: while current in mapping and current not in visited
WhileCond(cur, vis, m) == cur \in DOMAIN m /\ cur \notin vis

Classify_BothFlags(code, final) ==
    IF final # code THEN Triple(final, TRUE, FALSE) ELSE Triple(code, TRUE, TRUE)

Classify_NoSuppress(code, final) ==
    IF final # code THEN Triple(final, TRUE, FALSE) ELSE Triple(code, FALSE, FALSE)

\* lines 197-200
Classify(code, final) ==
    IF final # code THEN Triple(final, TRUE, FALSE) ELSE Triple(code, FALSE, TRUE)

CallerColumns_NoCopy(cols, added) == cols \cup added

\* line 206: df = df.copy(); the columns of lines 207-209 go to the copy, the
\* caller's frame keeps its columns.
CallerColumns(cols, added) == cols

NewColumns == {istat_col \o "_updated", "changed", "suppressed"}

\* the missing value (None, NaN): no text has this form
Null == <<"NaN">>

\* the other functions are not running
RIdle ==
    /\ df = <<>> /\ df_cols = {} /\ df_map = <<>> /\ valid_codes = {}
    /\ pc = "idle" /\ mapping = EmptyMap /\ valid_set = {} /\ unique = <<>>
    /\ resolved = EmptyMap /\ i = 0 /\ visited = {} /\ current = "none"
    /\ steps = 0 /\ out = <<>>

CIdle == name = Null /\ cpc = "idle" /\ out1 = <<>> /\ out2 = <<>>

SIdle ==
    /\ df1 = <<>> /\ df2 = <<>> /\ wratio = EmptyMap /\ spc = "idle"
    /\ names_df1 = <<>> /\ names_df2 = <<>> /\ unmatched = <<>> /\ rows = <<>>
    /\ nth = 0 /\ err = "none" /\ table = <<>>

RInit ==
    /\ df \in SeqsUpTo(Codes, MaxRows)
    /\ df_cols = {istat_col}
    /\ df_map \in SeqsUpTo(Codes \X Codes, MaxMapRows)
    /\ valid_codes \in SUBSET Codes
    /\ pc = "call"
    /\ mapping = EmptyMap
    /\ valid_set = {}
    /\ unique = <<>>
    /\ resolved = EmptyMap
    /\ i = 0
    /\ visited = {}
    /\ current = "none"
    /\ steps = 0
    /\ out = <<>>
    /\ CIdle
    /\ SIdle

\* lines 173-180
Setup ==
    /\ pc = "call"
    /\ mapping' = ToDict(df_map)
    /\ valid_set' = valid_codes
    /\ unique' = Unique(df)
    /\ resolved' = EmptyMap
    /\ pc' = "for"
    /\ UNCHANGED <<df, df_cols, df_map, valid_codes, i, visited, current, steps, out,
                   cvars, svars>>

\* lines 192-194: the next code is in valid_set
ForCodeValid ==
    /\ pc = "for"
    /\ i < Len(unique)
    /\ LET code == unique[i + 1]
       IN  /\ IsValid(code, valid_set)
           /\ resolved' = Put(resolved, code, ValidRecord(code))
    /\ i' = i + 1
    /\ UNCHANGED <<df, df_cols, df_map, valid_codes, pc, mapping, valid_set, unique,
                   visited, current, steps, out,
                   cvars, svars>>

\* lines 192-196, 184-185: the next code is not valid, resolve_code is entered
ForCodeEnter ==
    /\ pc = "for"
    /\ i < Len(unique)
    /\ ~IsValid(unique[i + 1], valid_set)
    /\ visited' = {}
    /\ current' = unique[i + 1]
    /\ steps' = 0
    /\ pc' = "while"
    /\ UNCHANGED <<df, df_cols, df_map, valid_codes, mapping, valid_set, unique,
                   resolved, i, out,
                   cvars, svars>>

\* lines 186-188: one iteration of the while loop
WhileStep ==
    /\ pc = "while"
    /\ WhileCond(current, visited, mapping)
    /\ visited' = visited \cup {current}
    /\ current' = mapping[current]
    /\ steps' = steps + 1
    /\ UNCHANGED <<df, df_cols, df_map, valid_codes, pc, mapping, valid_set, unique,
                   resolved, i, out,
                   cvars, svars>>

\* lines 186, 189, 197-200: the while condition fails, resolve_code returns
\* current and the code is classified
WhileExit ==
    /\ pc = "while"
    /\ ~WhileCond(current, visited, mapping)
    /\ steps' = steps + 1
    /\ resolved' = Put(resolved, unique[i + 1], Classify(unique[i + 1], current))
    /\ i' = i + 1
    /\ pc' = "for"
    /\ UNCHANGED <<df, df_cols, df_map, valid_codes, mapping, valid_set, unique,
                   visited, current, out,
                   cvars, svars>>

\* lines 203-210: the records are mapped back to the rows of a copy of df
MapBack ==
    /\ pc = "for"
    /\ i = Len(unique)
    /\ out' = [r \in DOMAIN df |->
                 [istat |-> df[r],
                  updated |-> resolved[df[r]].updated,
                  changed |-> resolved[df[r]].changed,
                  suppressed |-> resolved[df[r]].suppressed]]
    /\ df_cols' = CallerColumns(df_cols, NewColumns)
    /\ pc' = "done"
    /\ UNCHANGED <<df, df_map, valid_codes, mapping, valid_set, unique,
                   resolved, i, visited, current, steps,
                   cvars, svars>>

RNext == Setup \/ ForCodeValid \/ ForCodeEnter \/ WhileStep \/ WhileExit \/ MapBack

SpecResolve == RInit /\ [][RNext]_vars

\* ------------------------------------------------------------------ normalize_name

\* The characters of the model: a lower-case letter, an upper-case letter, an
\* accented upper-case letter (E with grave), a blank, an ASCII punctuation
\* mark and a typographic apostrophe (U+2019).
Chars == {"a", "E", "E_grave", " ", ".", "rsquo"}

MaxLen == 3         \* characters of a name

Texts == SeqsUpTo(Chars, MaxLen)

\* unidecode.unidecode on one character: ASCII is kept, an accented letter
\* gives its base letter, the typographic apostrophe gives the ASCII one.
UnidecodeChar(c) ==
    CASE c = "E_grave" -> <<"E">>
      [] c = "rsquo"   -> <<"'">>
      [] OTHER         -> <<c>>

\* line 32
RECURSIVE Unidecode(_)
Unidecode(s) ==
    IF s = <<>> THEN <<>> ELSE UnidecodeChar(Head(s)) \o Unidecode(Tail(s))

\* line 33: str.lower
Lower(s) == [k \in DOMAIN s |-> IF s[k] = "E" THEN "e" ELSE s[k]]

Whitespace == {" "}

\* line 34: str.strip removes leading and trailing whitespace
RECURSIVE Strip(_)
Strip(s) ==
    IF s = <<>> THEN <<>>
    ELSE IF Head(s) \in Whitespace THEN Strip(Tail(s))
    ELSE IF s[Len(s)] \in Whitespace THEN Strip(SubSeq(s, 1, Len(s) - 1))
    ELSE s

\* string.punctuation, as far as the characters of the model go
Punctuation == {".", "'"}

\* line 35: str.translate with a table that deletes string.punctuation
RECURSIVE RemovePunctuation(_)
RemovePunctuation(s) ==
    IF s = <<>> THEN <<>>
    ELSE IF Head(s) \in Punctuation THEN RemovePunctuation(Tail(s))
    ELSE <<Head(s)>> \o RemovePunctuation(Tail(s))

\* line 30: pd.isnull
IsNull(x) == x = Null

\* lines 24-36
normalize_name(x) ==
    IF IsNull(x) THEN <<>>
    ELSE RemovePunctuation(Strip(Lower(Unidecode(x))))

CInit ==
    /\ name \in Texts \cup {Null}
    /\ cpc = "start"
    /\ out1 = <<>>
    /\ out2 = <<>>
    /\ RIdle
    /\ SIdle

\* canonicalize(name)
Normalize ==
    /\ cpc = "start"
    /\ out1' = normalize_name(name)
    /\ cpc' = "once"
    /\ UNCHANGED <<name, out2, rvars, svars>>

\* canonicalize(canonicalize(name))
Renormalize ==
    /\ cpc = "once"
    /\ out2' = normalize_name(out1)
    /\ cpc' = "twice"
    /\ UNCHANGED <<name, out1, rvars, svars>>

CNext == Normalize \/ Renormalize

SpecCanon == CInit /\ [][CNext]_vars

\* C5: canonicalize(canonicalize(x)) = canonicalize(x) for every text x.
C5_Idempotent == cpc = "twice" => out2 = out1

\* ------------------------------------------------------------------ similarity_score

NameSet == {"bologna", "bolognia", "milano"}

MaxNames == 2       \* rows of df1 and of df2

\* Scores of two different names; fuzz.WRatio gives 100 for equal names.
LowScores == {50, 90}

Scorers ==
    {[p \in NameSet \X NameSet |-> IF p[1] = p[2] THEN 100 ELSE g[p]] :
        g \in [{q \in NameSet \X NameSet : q[1] # q[2]} -> LowScores]}

\* process.extractOne has no result
None == <<>>

\* line 144: process.extractOne(name, names_df2, scorer): the first choice with
\* the highest score, as (choice, score, index); None when there is no choice.
ExtractOne(query, choices, scorer) ==
    IF choices = <<>> THEN None
    ELSE LET best == CHOOSE k \in DOMAIN choices :
                        /\ \A m \in DOMAIN choices :
                              scorer[<<query, choices[m]>>] <= scorer[<<query, choices[k]>>]
                        /\ \A m \in 1..(k - 1) :
                              scorer[<<query, choices[m]>>] < scorer[<<query, choices[k]>>]
         IN  <<choices[best], scorer[<<query, choices[best]>>], best>>

\* line 139: [name for name in names_df1 if name not in names_df2]
RECURSIVE Unmatched(_, _)
Unmatched(n1, n2) ==
    IF n1 = <<>> THEN <<>>
    ELSE IF Head(n1) \in Range(n2) THEN Unmatched(Tail(n1), n2)
    ELSE <<Head(n1)>> \o Unmatched(Tail(n1), n2)

\* line 151: sort_values(score, ascending = False): the rows in an order of
\* descending score; the default sort is not stable, so rows of equal score
\* come in any order.
SortedByScore(rs) ==
    {t \in {[k \in DOMAIN rs |-> rs[f[k]]] : f \in Permutations(DOMAIN rs)} :
        \A k \in 1..(Len(t) - 1) : t[k].score >= t[k + 1].score}

SInit ==
    /\ df1 \in SeqsUpTo(NameSet, MaxNames)
    /\ df2 \in SeqsUpTo(NameSet, MaxNames)
    /\ wratio \in Scorers
    /\ spc = "call"
    /\ names_df1 = <<>>
    /\ names_df2 = <<>>
    /\ unmatched = <<>>
    /\ rows = <<>>
    /\ nth = 0
    /\ err = "none"
    /\ table = <<>>
    /\ RIdle
    /\ CIdle

\* lines 135-142
SSetup ==
    /\ spc = "call"
    /\ names_df1' = Unique(df1)
    /\ names_df2' = Unique(df2)
    /\ unmatched' = Unmatched(Unique(df1), Unique(df2))
    /\ rows' = <<>>
    /\ spc' = "for"
    /\ UNCHANGED <<df1, df2, wratio, nth, err, table, rvars, cvars>>

\* lines 143-149: extractOne has a result, a row is appended
ForRow ==
    /\ spc = "for"
    /\ nth < Len(unmatched)
    /\ LET res == ExtractOne(unmatched[nth + 1], names_df2, wratio)
       IN  /\ res # None
           /\ rows' = Append(rows, [source |-> unmatched[nth + 1],
                                    candidate |-> res[1],
                                    score |-> res[2]])
    /\ nth' = nth + 1
    /\ UNCHANGED <<df1, df2, wratio, spc, names_df1, names_df2, unmatched, err, table,
                   rvars, cvars>>

\* line 144: extractOne returns None, unpacking it raises TypeError
ForRaise ==
    /\ spc = "for"
    /\ nth < Len(unmatched)
    /\ ExtractOne(unmatched[nth + 1], names_df2, wratio) = None
    /\ err' = "TypeError"
    /\ spc' = "raised"
    /\ UNCHANGED <<df1, df2, wratio, names_df1, names_df2, unmatched, rows, nth, table,
                   rvars, cvars>>

\* lines 151-153: the frame of the rows is sorted and returned
SortReturn ==
    /\ spc = "for"
    /\ nth = Len(unmatched)
    /\ rows # <<>>
    /\ table' \in SortedByScore(rows)
    /\ spc' = "done"
    /\ UNCHANGED <<df1, df2, wratio, names_df1, names_df2, unmatched, rows, nth, err,
                   rvars, cvars>>

\* line 151: pd.DataFrame([]) has no columns, sort_values on the score column
\* raises KeyError
SortRaise ==
    /\ spc = "for"
    /\ nth = Len(unmatched)
    /\ rows = <<>>
    /\ err' = "KeyError"
    /\ spc' = "raised"
    /\ UNCHANGED <<df1, df2, wratio, names_df1, names_df2, unmatched, rows, nth, table,
                   rvars, cvars>>

SNext == SSetup \/ ForRow \/ ForRaise \/ SortReturn \/ SortRaise

SpecSuggest == SInit /\ [][SNext]_vars

Ended == spc \in {"done", "raised"}

\* C6: with non-empty targetNames the call returns exactly one suggestion for
\* each unique source name absent from targetNames and none for a source name
\* present in it; when every source name is present it returns the empty
\* sequence.
C6_ExclusionAndCoverage ==
    (Ended /\ df2 # <<>>) =>
        /\ spc = "done"
        /\ err = "none"
        /\ {table[k].source : k \in DOMAIN table} = Range(df1) \ Range(df2)
        /\ Len(table) = Cardinality(Range(df1) \ Range(df2))

\* C7: with empty targetNames the call fails with the error of having no
\* candidate to score against, whatever sourceNames is, and returns no
\* suggestion.  The code's failure for want of a candidate is the TypeError of
\* line 144, raised when extractOne has no result to unpack.
C7_EmptyCandidateSet ==
    (Ended /\ df2 = <<>>) =>
        /\ spc = "raised"
        /\ err = "TypeError"
        /\ table = <<>>

\* ------------------------------------------------------------------ resolver claims

\* The chains of a map, stated without the loop: a path starts at the code,
\* each element but the last is a key mapped to its successor, and the keys
\* walked are pairwise distinct.
Tails == UNION {[1..n -> Codes] : n \in 0..Cardinality(Codes)}

PathsFrom(code) == {<<code>> \o t : t \in Tails}

IsChain(p, m) ==
    /\ \A k \in 1..(Len(p) - 1) : p[k] \in DOMAIN m /\ m[p[k]] = p[k + 1]
    /\ \A j, k \in 1..(Len(p) - 1) : j # k => p[j] # p[k]

\* The first value on the chain from code that is not a key of the map or was
\* already visited.
Termini(code, m) ==
    {p[Len(p)] : p \in {q \in PathsFrom(code) :
        /\ IsChain(q, m)
        /\ \/ q[Len(q)] \notin DOMAIN m
           \/ \E k \in 1..(Len(q) - 1) : q[k] = q[Len(q)]}}

\* The chain from code leads back to code.
OnCycle(code, m) ==
    \E q \in PathsFrom(code) : Len(q) >= 2 /\ q[Len(q)] = code /\ IsChain(q, m)

\* the identifiers outside validSet, once every identifier has its record
Invalid == IF pc = "done" THEN {code \in DOMAIN resolved : code \notin valid_set} ELSE {}

\* C1: every identifier of validSet is recorded as (itself, changed = false,
\* suppressed = false), also when it is a key of the supersession map.
C1_ResolverValidity ==
    \A code \in DOMAIN resolved :
        code \in valid_codes => resolved[code] = Triple(code, FALSE, FALSE)

C1_Witness ==
    /\ pc = "done"
    /\ \E code \in DOMAIN resolved :
          /\ code \in valid_codes
          /\ code \in DOMAIN mapping
          /\ mapping[code] # code
          /\ resolved[code] = Triple(code, FALSE, FALSE)

\* C2: an identifier outside validSet is recorded changed only when its chain
\* ends at a member of validSet, and is recorded suppressed whenever its chain
\* does not reach a member of validSet.
C2_LifecycleClassification ==
    \A code \in Invalid : \A t \in Termini(code, mapping) :
        /\ resolved[code].changed => t \in valid_set
        /\ t \notin valid_set => resolved[code].suppressed

\* C3: no record has changed and suppressed both true, and exactly one of
\* {identifier in validSet with both flags false, changed, suppressed} holds.
C3_ExactlyOneClass ==
    \A code \in DOMAIN resolved :
        LET r == resolved[code]
            isValid == code \in valid_codes /\ ~r.changed /\ ~r.suppressed
        IN  /\ ~(r.changed /\ r.suppressed)
            /\ Cardinality({c \in {"valid", "changed", "suppressed"} :
                   \/ c = "valid" /\ isValid
                   \/ c = "changed" /\ r.changed
                   \/ c = "suppressed" /\ r.suppressed}) = 1
            /\ code \in valid_codes => isValid

C3_Witness ==
    /\ pc = "done"
    /\ \E b, c \in DOMAIN resolved :
          /\ resolved[b].changed /\ ~resolved[b].suppressed
          /\ resolved[c].suppressed /\ ~resolved[c].changed

\* C4: the while loop of resolve_code evaluates its condition at most
\* |supersessionMap| + 1 times before it returns (so it returns), also on maps
\* with cycles; on the cycle x -> y, y -> x with an empty valid set, x is
\* recorded suppressed.
C4_ChainTerminates ==
    /\ steps <= Cardinality(DOMAIN mapping) + 1
    /\ pc = "while" => steps <= Cardinality(DOMAIN mapping)
    /\ \A x, y \in Codes :
          /\ x # y
          /\ DOMAIN mapping = {x, y} /\ mapping[x] = y /\ mapping[y] = x
          /\ valid_set = {}
          /\ x \in DOMAIN resolved
          => resolved[x].suppressed

C4_Witness ==
    /\ pc = "done"
    /\ DOMAIN mapping = {"A", "B"} /\ mapping["A"] = "B" /\ mapping["B"] = "A"
    /\ valid_set = {}
    /\ "A" \in DOMAIN resolved
    /\ resolved["A"].suppressed
    /\ steps = Cardinality(DOMAIN mapping) + 1

\* C8: no step of update_istat changes the mapping table, the valid codes or
\* the caller's frame (its rows, its identifier column, its columns).
C8_InputsUnchanged ==
    [][/\ df' = df
       /\ df_cols' = df_cols
       /\ df_map' = df_map
       /\ valid_codes' = valid_codes]_vars

C8_Witness ==
    /\ pc = "done"
    /\ Len(out) >= 1
    /\ df_cols = {istat_col}
    /\ \E r \in DOMAIN out : out[r].changed /\ out[r].updated # df[r]

\* C9: for an identifier outside validSet the chain is followed to the first
\* value that is not a key or was already visited; when that terminus differs
\* from the identifier the record is (terminus, changed = true, suppressed =
\* false).  With map {A -> B, B -> C} and validSet {C}, A gives (C, true, false).
C9_ChainTerminus ==
    /\ \A code \in Invalid :
          LET T == Termini(code, mapping)
          IN  /\ Cardinality(T) = 1
              /\ \A t \in T : t # code => resolved[code] = Triple(t, TRUE, FALSE)
    /\ (/\ pc = "done"
        /\ mapping = ("A" :> "B" @@ "B" :> "C")
        /\ valid_set = {"C"}
        /\ "A" \in DOMAIN resolved)
       => resolved["A"] = Triple("C", TRUE, FALSE)

C9_Witness ==
    /\ pc = "done"
    /\ mapping = ("A" :> "B" @@ "B" :> "C")
    /\ valid_set = {"C"}
    /\ "A" \in DOMAIN resolved
    /\ resolved["A"] = Triple("C", TRUE, FALSE)

\* C10 (as stated): an identifier outside validSet is recorded (itself, changed
\* = false, suppressed = true) exactly when the terminus equals it, and the
\* terminus equals it only when it has no entry in the map or maps directly to
\* itself.
C10_SuppressedOnlySelfCycle ==
    \A code \in Invalid : \A t \in Termini(code, mapping) :
        /\ resolved[code] = Triple(code, FALSE, TRUE) <=> t = code
        /\ t = code => (code \notin DOMAIN mapping \/ mapping[code] = code)

\* C10 (amended): an identifier outside validSet is recorded (itself, changed =
\* false, suppressed = true) exactly when the terminus equals it, and the
\* terminus equals it exactly when it has no entry in the map or lies on a
\* cycle of the map (of any length: x -> x, or x -> y, y -> x).
C10_SuppressedIffNoProgress ==
    \A code \in Invalid : \A t \in Termini(code, mapping) :
        /\ resolved[code] = Triple(code, FALSE, TRUE) <=> t = code
        /\ t = code <=> (code \notin DOMAIN mapping \/ OnCycle(code, mapping))

C10_Witness ==
    /\ pc = "done"
    /\ \E x, y \in Invalid :
          /\ x # y
          /\ DOMAIN mapping = {x, y}
          /\ mapping[x] = y /\ mapping[y] = x
          /\ resolved[x] = Triple(x, FALSE, TRUE)

====
